---- MODULE Spec2Model ----
(***************************************************************************)
(* Interactive review web UI (plugins/interactive-review/mcp-server/       *)
(* web_ui.py): the line segmenter parse_markdown, the line table that      *)
(* generate_html embeds in the page, and the review session that the       *)
(* page's script runs (comment store, line selection, text selection,      *)
(* submit / cancel calls).                                                   *)
(*                                                                         *)
(* Strings are sequences of one-character strings, so that split, join,    *)
(* trim, substring and the formatting of ids are computed as the code      *)
(* computes them.                                                          *)
(***************************************************************************)
EXTENDS Integers, Sequences, FiniteSets, TLC

(***************************************************************************)
(* Bounds of the model                                                     *)
(***************************************************************************)
\* longest input text given to parse_markdown
MaxLen == 4
\* number of comment ids a session may issue (cap on commentIdCounter)
MaxIds == 2
\* number of outbound calls a session may issue
MaxCalls == 2
\* largest number of Units of a block-mode session
MaxUnits == 3

\* the characters input texts are made of
NL == "\n"
Chars == {"a", " ", NL}

(***************************************************************************)
(* String helpers (Python str / JavaScript String)                         *)
(***************************************************************************)
\* all strings over Chars of length at most n
StringsUpTo(n) == UNION {[1..k -> Chars] : k \in 0..n}

\* "".join / Array.prototype.join: the parts with sep between consecutive ones
RECURSIVE Join(_, _)
Join(parts, sep) ==
    IF Len(parts) = 0 THEN <<>>
    ELSE IF Len(parts) = 1 THEN parts[1]
    ELSE parts[1] \o sep \o Join(Tail(parts), sep)

\* str.split('\n'): the segments between the separators, empty ones included
RECURSIVE Split(_)
Split(s) ==
    IF \A i \in 1..Len(s) : s[i] # NL THEN <<s>>
    ELSE LET i == CHOOSE j \in 1..Len(s) :
                      s[j] = NL /\ \A k \in 1..(j - 1) : s[k] # NL
         IN  <<SubSeq(s, 1, i - 1)>> \o Split(SubSeq(s, i + 1, Len(s)))

\* decimal digits of a natural number (f"{i}" / `${n}`)
Digit(d) == <<"0", "1", "2", "3", "4", "5", "6", "7", "8", "9">>[d + 1]
RECURSIVE ToDecimal(_)
ToDecimal(n) ==
    IF n < 10 THEN <<Digit(n)>> ELSE ToDecimal(n \div 10) \o <<Digit(n % 10)>>

\* String.prototype.substring(0, n)
Substring0(s, n) == SubSeq(s, 1, IF n < Len(s) THEN n ELSE Len(s))

IsSpace(c) == c \in {" ", NL}
\* String.prototype.trim
RECURSIVE TrimLeft(_)
TrimLeft(s) ==
    IF s # <<>> /\ IsSpace(s[1]) THEN TrimLeft(Tail(s)) ELSE s
RECURSIVE TrimRight(_)
TrimRight(s) ==
    IF s # <<>> /\ IsSpace(s[Len(s)]) THEN TrimRight(SubSeq(s, 1, Len(s) - 1)) ELSE s
Trim(s) == TrimRight(TrimLeft(s))

(***************************************************************************)
(* parse_markdown and the line table of generate_html                      *)
(***************************************************************************)
LinePrefix == <<"l", "i", "n", "e", "-">>

\* Block with a fault: raw=line.strip()
BlockStripped(i, line) ==
    [id |-> LinePrefix \o ToDecimal(i), type |-> "line", text |-> line,
     level |-> 0, raw |-> Trim(line)]

\* Block(id=f"line-{i}", type="line", text=line, level=0, raw=line)
Block(i, line) ==
    [id |-> LinePrefix \o ToDecimal(i), type |-> "line", text |-> line,
     level |-> 0, raw |-> line]

\* str.splitlines() on "\n"-separated text: no segment after a trailing newline
SplitLines(s) ==
    LET parts == Split(s)
    IN  IF parts[Len(parts)] = <<>> THEN SubSeq(parts, 1, Len(parts) - 1) ELSE parts

\* parse_markdown with a fault: splitlines() for split('\n'); enumerate(lines, 1)
parse_markdown_splitlines(content) ==
    LET ls == SplitLines(content)
    IN  [k \in 1..Len(ls) |-> Block(k - 1, ls[k])]
parse_markdown_one_based(content) ==
    LET ls == Split(content)
    IN  [k \in 1..Len(ls) |-> Block(k, ls[k])]

parse_markdown(content) ==
    LET ls == Split(content)
    IN  [k \in 1..Len(ls) |-> Block(k - 1, ls[k])]

\* lines_json: [{"id": b.id, "text": b.text, "lineNum": i} for i, b in enumerate(blocks)]
LinesJson(bs) ==
    [k \in 1..Len(bs) |-> [id |-> bs[k].id, text |-> bs[k].text, lineNum |-> k - 1]]

(***************************************************************************)
(* JavaScript helpers of the page's script                                 *)
(***************************************************************************)
\* a number n held in a variable that may also hold null: <<n>>; null: << >>
Null == <<>>
Num(n) == <<n>>

\* a || b on values that are null or a number: null and 0 are falsy
JsOr(a, b) == IF a = Null \/ a = Num(0) THEN b ELSE a
\* ToNumber as applied by >= and <= : null converts to 0
ToNumber(x) == IF x = Null THEN 0 ELSE x[1]
MathMin(a, b) == IF a <= b THEN a ELSE b
MathMax(a, b) == IF a >= b THEN a ELSE b

\* Array.prototype.slice(s, e): negative indexes count from the end
SliceIndex(i, n) == IF i < 0 THEN MathMax(n + i, 0) ELSE MathMin(i, n)
Slice(arr, s, e) ==
    LET from == SliceIndex(s, Len(arr))
        to == SliceIndex(e, Len(arr))
    IN  IF from < to THEN SubSeq(arr, from + 1, to) ELSE <<>>

\* cut-off of a comment's preview text
PreviewMax == 100
Ellipsis == <<".", ".", ".">>
CommentPrefix == <<"c", "o", "m", "m", "e", "n", "t", "-">>
\* `comment-${n}`
CommentId(n) == CommentPrefix \o ToDecimal(n)

(***************************************************************************)
(* Inputs of a session                                                     *)
(***************************************************************************)
\* the documents a session is opened on
SessionContents == {<<"a", NL, " ", "a">>}
\* what window.getSelection().toString() can return on mouseup in the preview
SelectionStrings == {<<" ">>, <<"a", " ">>}
\* what the user can type into the inline comment input
InputValues == {<<>>, <<" ", "a">>}

VARIABLES
    stage,              \* "input" -> "parsed" -> "page": how far the Python side got
    content,            \* the markdown text
    blocks,             \* result of parse_markdown
    lines,              \* const lines of the script (lines_json)
    comments,           \* let comments
    selectionStart,     \* let selectionStart
    selectionEnd,       \* let selectionEnd
    isSelecting,        \* let isSelecting
    currentView,        \* let currentView
    commentIdCounter,   \* let commentIdCounter
    selectedText,       \* let selectedText
    selectionRange,     \* let selectionRange
    toolbarVisible,     \* #floating-toolbar has class visible
    popupVisible,       \* #inline-comment-popup has class visible
    indicatorVisible,   \* #selection-indicator has class visible
    inputValue,         \* #inline-comment-input value
    cards,              \* ids of the comment cards in #comments-list
    commentCount,       \* text of #comment-count
    hasComment,         \* lines of #source-view carrying class has-comment
    calls,              \* the fetch calls issued, in order, with their outcome
    alerts,             \* number of alert() dialogs shown
    clock,              \* the clock new Date() reads; it advances between two readings
    closed,             \* window.close() was called
    annotations,        \* block-mode: the Annotation of each Unit that has one
    lastCall            \* the direct call or key press made last, where it is recorded

pyVars == <<stage, content, blocks, lines>>
lineSelVars == <<selectionStart, selectionEnd, isSelecting, indicatorVisible>>
textSelVars == <<selectedText, selectionRange, toolbarVisible, popupVisible, inputValue>>
storeVars == <<comments, commentIdCounter, cards, commentCount>>
netVars == <<calls, alerts, clock, closed>>
vars == <<pyVars, lineSelVars, textSelVars, storeVars, netVars, currentView, hasComment,
          annotations, lastCall>>

LineCount == Len(lines)
LineIndexes == 0..(LineCount - 1)

(***************************************************************************)
(* Rendering                                                               *)
(***************************************************************************)
\* renderSourceView: a line gets class has-comment when
\* comments.some(c => index >= c.startLine && index <= c.endLine)
SourceMarks(cs) ==
    {i \in LineIndexes :
        \E k \in 1..Len(cs) :
            i >= ToNumber(cs[k].startLine) /\ i <= ToNumber(cs[k].endLine)}

\* renderComments: one card per comment, in store order
Cards(cs) == [k \in 1..Len(cs) |-> cs[k].id]

\* the page is loaded and its window is open: its handlers can run
Open == stage = "page" /\ ~closed

(***************************************************************************)
(* Initial states                                                          *)
(***************************************************************************)
\* no direct call of updateCommentText is the last direct call
NoCall == [fn |-> "none", commentId |-> <<>>, text |-> <<>>]

\* state of the script after construction and init()
ScriptInit ==
    /\ comments = <<>>
    /\ selectionStart = Null
    /\ selectionEnd = Null
    /\ isSelecting = FALSE
    /\ currentView = "rendered"
    /\ commentIdCounter = 0
    /\ selectedText = <<>>
    /\ selectionRange = Null
    /\ toolbarVisible = FALSE
    /\ popupVisible = FALSE
    /\ indicatorVisible = FALSE
    /\ inputValue = <<>>
    /\ cards = <<>>
    /\ commentCount = 0
    /\ hasComment = {}
    /\ calls = <<>>
    /\ alerts = 0
    /\ clock = 0
    /\ closed = FALSE
    /\ annotations = <<>>
    /\ lastCall = NoCall

\* a session: the page generated for one document, loaded in the browser
Init ==
    /\ content \in SessionContents
    /\ blocks = parse_markdown(content)
    /\ lines = LinesJson(blocks)
    /\ stage = "page"
    /\ ScriptInit

\* the Python side alone, on every text up to MaxLen characters
InitParse ==
    /\ content \in StringsUpTo(MaxLen)
    /\ blocks = <<>>
    /\ lines = <<>>
    /\ stage = "input"
    /\ ScriptInit

(***************************************************************************)
(* Python side                                                             *)
(***************************************************************************)
ParseMarkdown ==
    /\ stage = "input"
    /\ blocks' = parse_markdown(content)
    /\ stage' = "parsed"
    /\ UNCHANGED <<content, lines, annotations, lastCall, lineSelVars, textSelVars, storeVars, netVars,
                   currentView, hasComment>>

GenerateHtml ==
    /\ stage = "parsed"
    /\ lines' = LinesJson(blocks)
    /\ stage' = "page"
    /\ UNCHANGED <<content, blocks, annotations, lastCall, lineSelVars, textSelVars, storeVars, netVars,
                   currentView, hasComment>>

(***************************************************************************)
(* Text selection in the preview                                           *)
(***************************************************************************)
\* mouseup on #rendered-content: the document's mouseup listener, then the
\* timer callback reading the selection
TextMouseUp(sel) ==
    /\ Open
    /\ currentView = "rendered"
    /\ IF isSelecting /\ selectionStart # Null
       THEN /\ isSelecting' = FALSE
            /\ selectionEnd' = (IF selectionEnd = Null THEN selectionStart ELSE selectionEnd)
            /\ indicatorVisible' = TRUE
       ELSE UNCHANGED <<isSelecting, selectionEnd, indicatorVisible>>
    /\ LET text == Trim(sel)
       IN  IF text # <<>>
           THEN /\ selectedText' = text
                /\ selectionRange' = <<"range">>
                /\ toolbarVisible' = TRUE
           ELSE /\ toolbarVisible' = FALSE
                /\ UNCHANGED <<selectedText, selectionRange>>
    /\ UNCHANGED <<pyVars, annotations, lastCall, selectionStart, popupVisible, inputValue, storeVars, netVars,
                   currentView, hasComment>>

\* mousedown outside the toolbar and the preview
MouseDownElsewhere ==
    /\ Open
    /\ toolbarVisible' = FALSE
    /\ UNCHANGED <<pyVars, annotations, lastCall, lineSelVars, selectedText, selectionRange, popupVisible,
                   inputValue, storeVars, netVars, currentView, hasComment>>

\* the toolbar's Comment button
ShowInlineCommentInput ==
    /\ Open
    /\ toolbarVisible
    /\ IF selectedText = <<>>
       THEN UNCHANGED <<toolbarVisible, popupVisible, inputValue>>
       ELSE /\ toolbarVisible' = FALSE
            /\ popupVisible' = TRUE
            /\ inputValue' = <<>>
    /\ UNCHANGED <<pyVars, annotations, lastCall, lineSelVars, selectedText, selectionRange, storeVars, netVars,
                   currentView, hasComment>>

\* typing into #inline-comment-input
TypeInlineComment(v) ==
    /\ Open
    /\ popupVisible
    /\ inputValue' = v
    /\ UNCHANGED <<pyVars, annotations, lastCall, lineSelVars, selectedText, selectionRange, toolbarVisible,
                   popupVisible, storeVars, netVars, currentView, hasComment>>

\* the text comment built by confirmInlineComment
TextComment(n, commentText, selected) ==
    [id |-> CommentId(n), type |-> "text", startLine |-> Null, endLine |-> Null,
     text |-> commentText,
     linePreview |-> (IF Len(selected) > PreviewMax
                      THEN Substring0(selected, PreviewMax) \o Ellipsis
                      ELSE selected),
     selectedText |-> selected]

\* confirmInlineComment with a fault: the pending selection is kept
confirmInlineCommentKeepsSelection ==
    IF selectedText = <<>>
    THEN /\ popupVisible' = FALSE
         /\ inputValue' = <<>>
         /\ UNCHANGED <<selectedText, selectionRange, toolbarVisible, storeVars>>
    ELSE /\ commentIdCounter < MaxIds
         /\ comments' = Append(comments,
                               TextComment(commentIdCounter, Trim(inputValue), selectedText))
         /\ commentIdCounter' = commentIdCounter + 1
         /\ popupVisible' = FALSE
         /\ inputValue' = <<>>
         /\ cards' = Cards(comments')
         /\ commentCount' = Len(comments')
         /\ UNCHANGED <<selectedText, selectionRange, toolbarVisible>>

\* (the highlight span put around the selected text is not modelled)
confirmInlineComment ==
    IF selectedText = <<>>
    THEN /\ popupVisible' = FALSE
         /\ inputValue' = <<>>
         /\ UNCHANGED <<selectedText, selectionRange, toolbarVisible, storeVars>>
    ELSE /\ commentIdCounter < MaxIds
         /\ comments' = Append(comments,
                               TextComment(commentIdCounter, Trim(inputValue), selectedText))
         /\ commentIdCounter' = commentIdCounter + 1
         /\ popupVisible' = FALSE
         /\ inputValue' = <<>>
         /\ selectedText' = <<>>
         /\ selectionRange' = Null
         /\ cards' = Cards(comments')
         /\ commentCount' = Len(comments')
         /\ UNCHANGED toolbarVisible

\* Enter in #inline-comment-input
InlineEnter ==
    /\ Open
    /\ popupVisible
    /\ confirmInlineComment
    /\ UNCHANGED <<pyVars, annotations, lastCall, lineSelVars, netVars, currentView, hasComment>>

\* Escape in #inline-comment-input
InlineEscape ==
    /\ Open
    /\ popupVisible
    /\ popupVisible' = FALSE
    /\ inputValue' = <<>>
    /\ selectedText' = <<>>
    /\ selectionRange' = Null
    /\ UNCHANGED <<pyVars, annotations, lastCall, lineSelVars, toolbarVisible, storeVars, netVars, currentView,
                   hasComment>>

(***************************************************************************)
(* Line selection in the source view                                       *)
(***************************************************************************)
switchView(view) ==
    /\ currentView' = view
    /\ UNCHANGED <<pyVars, annotations, lastCall, lineSelVars, textSelVars, storeVars, netVars, hasComment>>

\* the Preview / Source buttons
SwitchView(view) == Open /\ switchView(view)

startLineSelection(lineNum) ==
    /\ isSelecting' = TRUE
    /\ selectionStart' = Num(lineNum)
    /\ selectionEnd' = Num(lineNum)
    /\ hasComment' = SourceMarks(comments)
    /\ UNCHANGED indicatorVisible

\* mousedown on a line of the source view (it also reaches the document's
\* mousedown listener, which hides the floating toolbar)
StartLineSelection(lineNum) ==
    /\ Open
    /\ currentView = "source"
    /\ startLineSelection(lineNum)
    /\ toolbarVisible' = FALSE
    /\ UNCHANGED <<pyVars, annotations, lastCall, selectedText, selectionRange, popupVisible, inputValue,
                   storeVars, netVars, currentView>>

extendLineSelection(lineNum) ==
    IF isSelecting /\ selectionStart # Null
    THEN /\ selectionEnd' = Num(lineNum)
         /\ hasComment' = SourceMarks(comments)
         /\ indicatorVisible' = TRUE
         /\ UNCHANGED <<selectionStart, isSelecting>>
    ELSE UNCHANGED <<lineSelVars, hasComment>>

\* mouseenter on a line of the source view
ExtendLineSelection(lineNum) ==
    /\ Open
    /\ currentView = "source"
    /\ extendLineSelection(lineNum)
    /\ UNCHANGED <<pyVars, annotations, lastCall, textSelVars, storeVars, netVars, currentView>>

\* the document's mouseup listener
MouseUp ==
    /\ Open
    /\ IF isSelecting /\ selectionStart # Null
       THEN /\ isSelecting' = FALSE
            /\ selectionEnd' = (IF selectionEnd = Null THEN selectionStart ELSE selectionEnd)
            /\ indicatorVisible' = TRUE
       ELSE UNCHANGED <<isSelecting, selectionEnd, indicatorVisible>>
    /\ UNCHANGED <<pyVars, annotations, lastCall, selectionStart, textSelVars, storeVars, netVars, currentView,
                   hasComment>>

clearSelection ==
    /\ selectionStart' = Null
    /\ selectionEnd' = Null
    /\ indicatorVisible' = FALSE
    /\ hasComment' = SourceMarks(comments)
    /\ UNCHANGED isSelecting

\* the selection indicator's Cancel button
ClearSelection ==
    /\ Open
    /\ indicatorVisible
    /\ clearSelection
    /\ UNCHANGED <<pyVars, annotations, lastCall, textSelVars, storeVars, netVars, currentView>>

(***************************************************************************)
(* The comment store                                                       *)
(***************************************************************************)
\* lines.slice(start, end + 1).map(l => l.text).join('\n'), cut at PreviewMax
LinePreview(start, end) ==
    LET sl == Slice(lines, start, end + 1)
        joined == Join([k \in 1..Len(sl) |-> sl[k].text], <<NL>>)
    IN  Substring0(joined, PreviewMax)
            \o (IF Len(joined) > PreviewMax THEN Ellipsis ELSE <<>>)

LineComment(n, start, end) ==
    [id |-> CommentId(n), type |-> "line", startLine |-> Num(start), endLine |-> Num(end),
     text |-> <<>>, linePreview |-> LinePreview(start, end)]

\* SelectionRange with a fault: the end taken one past the last selected line
SelectionRangeEndExclusive(selStart, selEnd) ==
    <<MathMin(selStart[1], JsOr(selEnd, selStart)[1]),
      MathMax(selStart[1], JsOr(selEnd, selStart)[1]) + 1>>

\* start = Math.min(selectionStart, selectionEnd || selectionStart) and
\* end = Math.max(selectionStart, selectionEnd || selectionStart)
SelectionRange(selStart, selEnd) ==
    <<MathMin(selStart[1], JsOr(selEnd, selStart)[1]),
      MathMax(selStart[1], JsOr(selEnd, selStart)[1])>>

\* addCommentForSelection with a fault: id: `comment-${comments.length}`
addCommentForSelectionIdByLength(selStart, selEnd) ==
    IF selStart = Null
    THEN /\ selectionStart' = selStart
         /\ selectionEnd' = selEnd
         /\ UNCHANGED <<isSelecting, indicatorVisible, storeVars, hasComment>>
    ELSE LET range == SelectionRange(selStart, selEnd)
         IN  /\ commentIdCounter < MaxIds
             /\ comments' = Append(comments,
                                   LineComment(Len(comments), range[1], range[2]))
             /\ commentIdCounter' = commentIdCounter + 1
             /\ selectionStart' = Null
             /\ selectionEnd' = Null
             /\ indicatorVisible' = FALSE
             /\ cards' = Cards(comments')
             /\ commentCount' = Len(comments')
             /\ hasComment' = SourceMarks(comments')
             /\ UNCHANGED isSelecting

\* addCommentForSelection with a fault: clearSelection() left out, so that
\* the selection stays active after the comment was added
addCommentForSelectionKeepsSelection(selStart, selEnd) ==
    IF selStart = Null
    THEN /\ selectionStart' = selStart
         /\ selectionEnd' = selEnd
         /\ UNCHANGED <<isSelecting, indicatorVisible, storeVars, hasComment>>
    ELSE LET range == SelectionRange(selStart, selEnd)
         IN  /\ commentIdCounter < MaxIds
             /\ comments' = Append(comments,
                                   LineComment(commentIdCounter, range[1], range[2]))
             /\ commentIdCounter' = commentIdCounter + 1
             /\ selectionStart' = selStart
             /\ selectionEnd' = selEnd
             /\ cards' = Cards(comments')
             /\ commentCount' = Len(comments')
             /\ hasComment' = SourceMarks(comments')
             /\ UNCHANGED <<isSelecting, indicatorVisible>>

\* addCommentForSelection, entered with the selection (selStart, selEnd)
addCommentForSelection(selStart, selEnd) ==
    IF selStart = Null
    THEN /\ selectionStart' = selStart
         /\ selectionEnd' = selEnd
         /\ UNCHANGED <<isSelecting, indicatorVisible, storeVars, hasComment>>
    ELSE LET range == SelectionRange(selStart, selEnd)
         IN  /\ commentIdCounter < MaxIds
             /\ comments' = Append(comments,
                                   LineComment(commentIdCounter, range[1], range[2]))
             /\ commentIdCounter' = commentIdCounter + 1
             /\ selectionStart' = Null
             /\ selectionEnd' = Null
             /\ indicatorVisible' = FALSE
             /\ cards' = Cards(comments')
             /\ commentCount' = Len(comments')
             /\ hasComment' = SourceMarks(comments')
             /\ UNCHANGED isSelecting

\* the selection indicator's Add Comment button
AddCommentForSelection ==
    /\ Open
    /\ indicatorVisible
    /\ addCommentForSelection(selectionStart, selectionEnd)
    /\ UNCHANGED <<pyVars, annotations, lastCall, textSelVars, netVars, currentView>>

quickAddComment(lineNum) ==
    addCommentForSelection(Num(lineNum), Num(lineNum))

\* the + button of a line of the source view
QuickAddComment(lineNum) ==
    /\ Open
    /\ currentView = "source"
    /\ quickAddComment(lineNum)
    /\ UNCHANGED <<pyVars, annotations, lastCall, textSelVars, netVars, currentView>>

\* WithoutId with a fault: comments.splice(comments.findIndex(c => c.id === commentId), 1),
\* which removes the last comment when the id is absent (findIndex gives -1)
WithoutIdSplice(cs, commentId) ==
    IF \E k \in 1..Len(cs) : cs[k].id = commentId
    THEN LET Keep(c) == c.id # commentId IN SelectSeq(cs, Keep)
    ELSE SubSeq(cs, 1, Len(cs) - 1)

\* WithoutId with a fault: the comment of the id and all that follow it go
WithoutIdTruncates(cs, commentId) ==
    IF \E k \in 1..Len(cs) : cs[k].id = commentId
    THEN SubSeq(cs, 1, (CHOOSE k \in 1..Len(cs) : cs[k].id = commentId) - 1)
    ELSE cs

\* comments.filter(c => c.id !== commentId)
WithoutId(cs, commentId) ==
    LET Keep(c) == c.id # commentId IN SelectSeq(cs, Keep)

\* deleteComment with a fault: renderComments() left out, so that neither the
\* cards nor the count are refreshed
deleteCommentNoRender(commentId) ==
    /\ comments' = WithoutId(comments, commentId)
    /\ hasComment' = SourceMarks(comments')
    /\ UNCHANGED <<commentIdCounter, cards, commentCount>>

deleteComment(commentId) ==
    /\ comments' = WithoutId(comments, commentId)
    /\ cards' = Cards(comments')
    /\ commentCount' = Len(comments')
    /\ hasComment' = SourceMarks(comments')
    /\ UNCHANGED commentIdCounter

\* the delete button of a comment card
DeleteComment(k) ==
    /\ Open
    /\ k \in 1..Len(cards)
    /\ deleteComment(cards[k])
    /\ UNCHANGED <<pyVars, annotations, lastCall, lineSelVars, textSelVars, netVars, currentView>>

\* clearAllComments with a fault: only the text comments (those with a highlight
\* in the preview) are removed
clearAllCommentsHighlighted(confirmed) ==
    IF Len(comments) > 0 /\ confirmed
    THEN /\ comments' = LET Keep(c) == c.type # "text" IN SelectSeq(comments, Keep)
         /\ cards' = Cards(comments')
         /\ commentCount' = Len(comments')
         /\ hasComment' = SourceMarks(comments')
         /\ UNCHANGED commentIdCounter
    ELSE UNCHANGED <<storeVars, hasComment>>

\* clearAllComments; confirmed is the answer to confirm('Delete all comments?')
clearAllComments(confirmed) ==
    IF Len(comments) > 0 /\ confirmed
    THEN /\ comments' = <<>>
         /\ cards' = Cards(comments')
         /\ commentCount' = Len(comments')
         /\ hasComment' = SourceMarks(comments')
         /\ UNCHANGED commentIdCounter
    ELSE UNCHANGED <<storeVars, hasComment>>

\* the Clear All button
ClearAllComments(confirmed) ==
    /\ Open
    /\ clearAllComments(confirmed)
    /\ UNCHANGED <<pyVars, annotations, lastCall, lineSelVars, textSelVars, netVars, currentView>>

\* updateCommentText with a fault: a comment whose text is emptied is dropped
updateCommentTextDropsEmpty(commentId, text) ==
    /\ comments' =
           IF text = <<>>
           THEN WithoutId(comments, commentId)
           ELSE [k \in 1..Len(comments) |->
                    IF comments[k].id = commentId
                    THEN [comments[k] EXCEPT !.text = text]
                    ELSE comments[k]]
    /\ UNCHANGED <<commentIdCounter, cards, commentCount, hasComment>>

\* updateCommentText with a fault: the text written to every comment
updateCommentTextAll(commentId, text) ==
    /\ comments' = [k \in 1..Len(comments) |-> [comments[k] EXCEPT !.text = text]]
    /\ UNCHANGED <<commentIdCounter, cards, commentCount, hasComment>>

\* const comment = comments.find(c => c.id === commentId);
\* if (comment) comment.text = text;   (nothing is rendered again)
updateCommentText(commentId, text) ==
    /\ comments' =
           IF \E k \in 1..Len(comments) : comments[k].id = commentId
           THEN LET found == CHOOSE k \in 1..Len(comments) :
                                 /\ comments[k].id = commentId
                                 /\ \A j \in 1..(k - 1) : comments[j].id # commentId
                IN  [comments EXCEPT ![found].text = text]
           ELSE comments
    /\ UNCHANGED <<commentIdCounter, cards, commentCount, hasComment>>

(***************************************************************************)
(* Submit and cancel                                                       *)
(***************************************************************************)
\* SubmitItem with a fault: checked: !!c.text
SubmitItemCheckedIfText(c) ==
    [id |-> c.id, startLine |-> c.startLine, endLine |-> c.endLine, text |-> c.text,
     linePreview |-> c.linePreview, checked |-> (c.text # <<>>), comment |-> c.text]

\* one element of result.items
SubmitItem(c) ==
    [id |-> c.id, startLine |-> c.startLine, endLine |-> c.endLine, text |-> c.text,
     linePreview |-> c.linePreview, checked |-> TRUE, comment |-> c.text]

\* the object submitReview serializes
SubmitResult(cs, timestamp) ==
    [status |-> "submitted", timestamp |-> timestamp,
     items |-> [k \in 1..Len(cs) |-> SubmitItem(cs[k])]]

\* CancelResult with a fault: the items of the store sent along
CancelResultWithItems(cs) ==
    [status |-> "cancelled", items |-> [k \in 1..Len(cs) |-> SubmitItem(cs[k])]]

\* the object cancelReview serializes
CancelResult(cs) ==
    [status |-> "cancelled", items |-> <<>>]

\* fetch(.../submit, {method: 'POST', body: JSON.stringify(body)}) called by `by`;
\* the body is serialized when the call is made
Fetch(by, body) ==
    /\ Len(calls) < MaxCalls
    /\ calls' = Append(calls, [by |-> by, body |-> body, state |-> "pending"])
    /\ UNCHANGED <<alerts, closed>>

\* submitReview up to its await
submitReview ==
    /\ Fetch("submitReview", SubmitResult(comments, clock))
    /\ clock' = clock + 1

\* cancelReview up to its await
cancelReview ==
    /\ Fetch("cancelReview", CancelResult(comments))
    /\ UNCHANGED clock

\* the Submit Review button
SubmitReview ==
    /\ Open
    /\ submitReview
    /\ UNCHANGED <<pyVars, annotations, lastCall, lineSelVars, textSelVars, storeVars, currentView, hasComment>>

\* the Cancel button
CancelReview ==
    /\ Open
    /\ cancelReview
    /\ UNCHANGED <<pyVars, annotations, lastCall, lineSelVars, textSelVars, storeVars, currentView, hasComment>>

\* FetchResolved with a fault: window.close() is left out after a submit
\* that succeeded
FetchResolvedStaysOpen(i) ==
    /\ Open
    /\ i \in 1..Len(calls)
    /\ calls[i].state = "pending"
    /\ calls' = [calls EXCEPT ![i].state = "resolved"]
    /\ closed' = (calls[i].by = "cancelReview")
    /\ UNCHANGED <<pyVars, annotations, lastCall, lineSelVars, textSelVars, storeVars, alerts, clock,
                   currentView, hasComment>>

\* the awaited fetch of call i resolves: window.close()
FetchResolved(i) ==
    /\ Open
    /\ i \in 1..Len(calls)
    /\ calls[i].state = "pending"
    /\ calls' = [calls EXCEPT ![i].state = "resolved"]
    /\ closed' = TRUE
    /\ UNCHANGED <<pyVars, annotations, lastCall, lineSelVars, textSelVars, storeVars, alerts, clock,
                   currentView, hasComment>>

\* FetchRejected with a fault: the body of a failed submit is built again
\* from the store as it is when the call fails
FetchRejectedReserialized(i) ==
    /\ Open
    /\ i \in 1..Len(calls)
    /\ calls[i].state = "pending"
    /\ calls' = [calls EXCEPT ![i].state = "rejected",
                              ![i].body = IF calls[i].by = "submitReview"
                                          THEN SubmitResult(comments, calls[i].body.timestamp)
                                          ELSE calls[i].body]
    /\ IF calls[i].by = "submitReview"
       THEN alerts' = alerts + 1 /\ UNCHANGED closed
       ELSE closed' = TRUE /\ UNCHANGED alerts
    /\ UNCHANGED <<pyVars, annotations, lastCall, lineSelVars, textSelVars, storeVars,
                   clock, currentView, hasComment>>

\* FetchRejected with a fault: a failed submit is sent again by the page
FetchRejectedRetries(i) ==
    /\ Open
    /\ i \in 1..Len(calls)
    /\ calls[i].state = "pending"
    /\ LET failed == [calls EXCEPT ![i].state = "rejected"]
       IN  IF calls[i].by = "submitReview" /\ Len(calls) < MaxCalls
           THEN calls' = Append(failed, [calls[i] EXCEPT !.state = "pending"])
           ELSE calls' = failed
    /\ IF calls[i].by = "submitReview"
       THEN alerts' = alerts + 1 /\ UNCHANGED closed
       ELSE closed' = TRUE /\ UNCHANGED alerts
    /\ UNCHANGED <<pyVars, annotations, lastCall, lineSelVars, textSelVars, storeVars, clock,
                   currentView, hasComment>>

\* FetchRejected with a fault: a failed cancel is reported and the page stays
FetchRejectedCancelStays(i) ==
    /\ Open
    /\ i \in 1..Len(calls)
    /\ calls[i].state = "pending"
    /\ calls' = [calls EXCEPT ![i].state = "rejected"]
    /\ alerts' = alerts + 1
    /\ UNCHANGED closed
    /\ UNCHANGED <<pyVars, annotations, lastCall, lineSelVars, textSelVars, storeVars, clock,
                   currentView, hasComment>>

\* the awaited fetch of call i rejects: submitReview alerts, cancelReview closes
FetchRejected(i) ==
    /\ Open
    /\ i \in 1..Len(calls)
    /\ calls[i].state = "pending"
    /\ calls' = [calls EXCEPT ![i].state = "rejected"]
    /\ IF calls[i].by = "submitReview"
       THEN alerts' = alerts + 1 /\ UNCHANGED closed
       ELSE closed' = TRUE /\ UNCHANGED alerts
    /\ UNCHANGED <<pyVars, annotations, lastCall, lineSelVars, textSelVars, storeVars, clock, currentView,
                   hasComment>>

(***************************************************************************)
(* Keyboard shortcuts (the document's keydown listener)                    *)
(***************************************************************************)
\* Cmd/Ctrl+Enter
KeyCmdEnter ==
    /\ Open
    /\ submitReview
    /\ UNCHANGED <<pyVars, annotations, lastCall, lineSelVars, textSelVars, storeVars, currentView, hasComment>>

\* the Escape branch of the document's keydown listener
keyEscape ==
    /\ IF popupVisible
       THEN UNCHANGED <<lineSelVars, netVars, hasComment>>
       ELSE IF selectionStart # Null
            THEN clearSelection /\ UNCHANGED netVars
            ELSE cancelReview /\ UNCHANGED <<lineSelVars, hasComment>>
    /\ UNCHANGED <<pyVars, annotations, textSelVars, storeVars, currentView>>

\* Escape, not handled by the inline comment input
KeyEscape ==
    /\ Open
    /\ keyEscape
    /\ UNCHANGED lastCall

(***************************************************************************)
(* Specifications                                                          *)
(***************************************************************************)
\* the session as the page's controls drive it
Next ==
    \/ \E sel \in SelectionStrings : TextMouseUp(sel)
    \/ MouseDownElsewhere
    \/ ShowInlineCommentInput
    \/ \E v \in InputValues : TypeInlineComment(v)
    \/ InlineEnter
    \/ InlineEscape
    \/ \E view \in {"rendered", "source"} : SwitchView(view)
    \/ \E n \in LineIndexes : StartLineSelection(n)
    \/ \E n \in LineIndexes : ExtendLineSelection(n)
    \/ MouseUp
    \/ ClearSelection
    \/ AddCommentForSelection
    \/ \E n \in LineIndexes : QuickAddComment(n)
    \/ \E k \in 1..MaxIds : DeleteComment(k)
    \/ \E confirmed \in BOOLEAN : ClearAllComments(confirmed)
    \/ SubmitReview
    \/ CancelReview
    \/ \E i \in 1..MaxCalls : FetchResolved(i)
    \/ \E i \in 1..MaxCalls : FetchRejected(i)
    \/ KeyCmdEnter
    \/ KeyEscape

Spec == Init /\ [][Next]_vars

\* the Python side: parse_markdown, then the line table of generate_html
NextParse ==
    \/ ParseMarkdown
    \/ GenerateHtml

SpecParse == InitParse /\ [][NextParse]_vars

(***************************************************************************)
(* The script's functions called directly.  They are globals of the page,  *)
(* bound to no control state, and take whatever line number they are given.*)
(***************************************************************************)
\* line numbers a caller can pass: the valid ones, one below and one above
LineArgs == (-1)..LineCount

CallStartLineSelection(n) ==
    /\ Open
    /\ startLineSelection(n)
    /\ UNCHANGED <<pyVars, annotations, textSelVars, storeVars, netVars, currentView>>
    /\ lastCall' = NoCall

CallExtendLineSelection(n) ==
    /\ Open
    /\ extendLineSelection(n)
    /\ UNCHANGED <<pyVars, annotations, textSelVars, storeVars, netVars, currentView>>
    /\ lastCall' = NoCall

CallClearSelection ==
    /\ Open
    /\ clearSelection
    /\ UNCHANGED <<pyVars, annotations, textSelVars, storeVars, netVars, currentView>>
    /\ lastCall' = NoCall

CallAddCommentForSelection ==
    /\ Open
    /\ addCommentForSelection(selectionStart, selectionEnd)
    /\ UNCHANGED <<pyVars, annotations, textSelVars, netVars, currentView>>
    /\ lastCall' = NoCall

CallQuickAddComment(n) ==
    /\ Open
    /\ quickAddComment(n)
    /\ UNCHANGED <<pyVars, annotations, textSelVars, netVars, currentView>>
    /\ lastCall' = NoCall

CallDeleteComment(commentId) ==
    /\ Open
    /\ deleteComment(commentId)
    /\ UNCHANGED <<pyVars, annotations, lineSelVars, textSelVars, netVars, currentView>>
    /\ lastCall' = NoCall

CallClearAllComments(confirmed) ==
    /\ Open
    /\ clearAllComments(confirmed)
    /\ UNCHANGED <<pyVars, annotations, lineSelVars, textSelVars, netVars, currentView>>
    /\ lastCall' = NoCall

\* the texts a caller can give a comment
CommentTexts == {<<>>, <<"a">>}

CallUpdateCommentText(commentId, text) ==
    /\ Open
    /\ updateCommentText(commentId, text)
    /\ UNCHANGED <<pyVars, annotations, lineSelVars, textSelVars, netVars, currentView>>
    /\ lastCall' = [fn |-> "updateCommentText", commentId |-> commentId, text |-> text]

NextCalls ==
    \/ \E n \in LineArgs : CallStartLineSelection(n)
    \/ \E n \in LineArgs : CallExtendLineSelection(n)
    \/ MouseUp
    \/ CallClearSelection
    \/ CallAddCommentForSelection
    \/ \E n \in LineArgs : CallQuickAddComment(n)
    \/ \E n \in 0..MaxIds : CallDeleteComment(CommentId(n))
    \/ \E confirmed \in BOOLEAN : CallClearAllComments(confirmed)
    \/ \E n \in 0..MaxIds, text \in CommentTexts :
           CallUpdateCommentText(CommentId(n), text)

SpecCalls == Init /\ [][NextCalls]_vars

(***************************************************************************)
(* The operations on the store side by side: the controls that select,     *)
(* add, delete, clear and submit, and updateCommentText, which edits the   *)
(* text of a stored comment (a global function; no control calls it).      *)
(***************************************************************************)
\* updateCommentText called on the page as the controls left it
EditCommentText(commentId, text) ==
    /\ Open
    /\ updateCommentText(commentId, text)
    /\ UNCHANGED <<pyVars, annotations, lastCall, lineSelVars, textSelVars, netVars,
                   currentView>>

\* the first submit attempt of the session
FirstSubmitReview ==
    /\ calls = <<>>
    /\ SubmitReview

NextStore ==
    \/ \E sel \in SelectionStrings : TextMouseUp(sel)
    \/ ShowInlineCommentInput
    \/ InlineEnter
    \/ \E view \in {"rendered", "source"} : SwitchView(view)
    \/ \E n \in LineIndexes : StartLineSelection(n)
    \/ \E n \in LineIndexes : ExtendLineSelection(n)
    \/ MouseUp
    \/ ClearSelection
    \/ AddCommentForSelection
    \/ \E n \in LineIndexes : QuickAddComment(n)
    \/ \E k \in 1..MaxIds : DeleteComment(k)
    \/ \E confirmed \in BOOLEAN : ClearAllComments(confirmed)
    \/ \E n \in 0..MaxIds, text \in CommentTexts :
           EditCommentText(CommentId(n), text)
    \/ FirstSubmitReview
    \/ \E i \in 1..MaxCalls : FetchResolved(i)
    \/ \E i \in 1..MaxCalls : FetchRejected(i)

SpecStore == Init /\ [][NextStore]_vars

(***************************************************************************)
(* Keys and outbound calls: the triggers of submit and cancel, the Escape  *)
(* key in its three situations (popup visible, line selection active,      *)
(* neither), and the outcomes of the calls.  A call that was issued        *)
(* eventually succeeds or fails, as long as the page is there to await it. *)
(***************************************************************************)
\* an Escape key press that reaches the document's keydown listener
EscapeKey == [fn |-> "Escape", commentId |-> <<>>, text |-> <<>>]

\* Escape pressed while the focus is not in the inline comment input (the
\* input is left by a click elsewhere; the popup stays visible)
PressEscape ==
    /\ Open
    /\ keyEscape
    /\ lastCall' = EscapeKey

NextNet ==
    \/ \E sel \in SelectionStrings : TextMouseUp(sel)
    \/ ShowInlineCommentInput
    \/ InlineEnter
    \/ InlineEscape
    \/ \E view \in {"rendered", "source"} : SwitchView(view)
    \/ \E n \in LineIndexes : StartLineSelection(n)
    \/ MouseUp
    \/ \E n \in LineIndexes : QuickAddComment(n)
    \/ SubmitReview
    \/ CancelReview
    \/ KeyCmdEnter
    \/ PressEscape
    \/ \E i \in 1..MaxCalls : FetchResolved(i)
    \/ \E i \in 1..MaxCalls : FetchRejected(i)

\* every call issued eventually resolves or rejects
FetchSettles ==
    \A i \in 1..MaxCalls : WF_vars(FetchResolved(i) \/ FetchRejected(i))

SpecNet == Init /\ [][NextNet]_vars /\ FetchSettles

(***************************************************************************)
(* Text comments confirmed with and without a pending selection: the       *)
(* controls of the preview, and confirmInlineComment called as the global  *)
(* function it is, which is the only way to confirm with the popup hidden  *)
(* (the popup is shown only for a selection, and Enter is read only in the *)
(* popup's input).                                                         *)
(***************************************************************************)
ConfirmCall == [fn |-> "confirmInlineComment", commentId |-> <<>>, text |-> <<>>]

CallConfirmInlineComment ==
    /\ Open
    /\ confirmInlineComment
    /\ UNCHANGED <<pyVars, annotations, lineSelVars, netVars, currentView, hasComment>>
    /\ lastCall' = ConfirmCall

NextConfirm ==
    \/ \E sel \in SelectionStrings : TextMouseUp(sel)
    \/ MouseDownElsewhere
    \/ ShowInlineCommentInput
    \/ \E v \in InputValues : TypeInlineComment(v)
    \/ InlineEnter
    \/ InlineEscape
    \/ CallConfirmInlineComment
    \/ \E k \in 1..MaxIds : DeleteComment(k)

SpecConfirm == Init /\ [][NextConfirm]_vars

(***************************************************************************)
(* Deletion from a store of line and text comments with differing texts:   *)
(* the controls that add a comment in either view, and the delete button   *)
(* of every card.                                                          *)
(***************************************************************************)
NextDelete ==
    \/ \E sel \in SelectionStrings : TextMouseUp(sel)
    \/ ShowInlineCommentInput
    \/ \E v \in InputValues : TypeInlineComment(v)
    \/ InlineEnter
    \/ \E view \in {"rendered", "source"} : SwitchView(view)
    \/ \E n \in LineIndexes : QuickAddComment(n)
    \/ \E k \in 1..MaxIds : DeleteComment(k)

SpecDelete == Init /\ [][NextDelete]_vars

(***************************************************************************)
(* Text comments on selections of any length: the preview of the page,     *)
(* where also a text longer than the preview cut-off can be selected.      *)
(***************************************************************************)
\* a selected text one character longer than the preview cut-off
LongText == [k \in 1..(PreviewMax + 1) |-> "a"]
\* what window.getSelection().toString() can return, the long text included
TextSelections == SelectionStrings \cup {LongText}

NextText ==
    \/ \E sel \in TextSelections : TextMouseUp(sel)
    \/ MouseDownElsewhere
    \/ ShowInlineCommentInput
    \/ \E v \in InputValues : TypeInlineComment(v)
    \/ InlineEnter
    \/ InlineEscape
    \/ \E k \in 1..MaxIds : DeleteComment(k)
    \/ SubmitReview
    \/ \E i \in 1..MaxCalls : FetchResolved(i)
    \/ \E i \in 1..MaxCalls : FetchRejected(i)

SpecText == Init /\ [][NextText]_vars

(***************************************************************************)
(* Block-mode session.  The page generated by web_ui.py is line-mode only; *)
(* of block-mode the source keeps the Block type (heading, list-item,      *)
(* paragraph, code).  The block-mode Session Controller is modelled from   *)
(* the specification: one approval flag per Unit, default approved, an     *)
(* Annotation created on the first interaction with a Unit, and a payload  *)
(* with one item {id, text, checked, comment} per Unit.                    *)
(***************************************************************************)
BlockPrefix == <<"b", "l", "o", "c", "k", "-">>
\* n Units as the block-mode Segmenter hands them over, in document order
BlockUnits(n) ==
    [k \in 1..n |-> [id |-> BlockPrefix \o ToDecimal(k - 1), type |-> "paragraph",
                     text |-> <<"a">>, level |-> 0, raw |-> <<"a">>]]
UnitIds == {blocks[k].id : k \in 1..Len(blocks)}

\* the Annotation a Unit gets on the first interaction: approved, no comment
DefaultAnnotation == [approved |-> TRUE, comment |-> <<>>]
\* the Annotation of a Unit; a Unit without one counts as approved
AnnotationOf(unitId) ==
    IF unitId \in DOMAIN annotations THEN annotations[unitId] ELSE DefaultAnnotation
\* the store with the Annotation of unitId created or replaced
WithAnnotation(unitId, a) ==
    [u \in DOMAIN annotations \cup {unitId} |-> IF u = unitId THEN a ELSE annotations[u]]

\* no terminal transition has occurred yet
Reviewing == calls = <<>>

lineModeVars == <<lineSelVars, textSelVars, storeVars, currentView, hasComment, lastCall>>

InitBlock ==
    /\ content = <<>>
    /\ blocks \in {BlockUnits(n) : n \in 1..MaxUnits}
    /\ lines = <<>>
    /\ stage = "page"
    /\ ScriptInit

\* toggleApproval(unitId): flips approved, creating the Annotation if absent;
\* rejected once a terminal state is reached
toggleApproval(unitId) ==
    IF Reviewing /\ unitId \in UnitIds
    THEN annotations' =
             WithAnnotation(unitId, [AnnotationOf(unitId) EXCEPT !.approved = ~@])
    ELSE UNCHANGED annotations

ToggleApproval(unitId) ==
    /\ Open
    /\ toggleApproval(unitId)
    /\ UNCHANGED <<pyVars, lineModeVars, netVars>>

\* setComment(unitId, text): upserts the comment field
setComment(unitId, text) ==
    IF Reviewing /\ unitId \in UnitIds
    THEN annotations' =
             WithAnnotation(unitId, [AnnotationOf(unitId) EXCEPT !.comment = text])
    ELSE UNCHANGED annotations

SetComment(unitId, text) ==
    /\ Open
    /\ setComment(unitId, text)
    /\ UNCHANGED <<pyVars, lineModeVars, netVars>>

\* approveAll() / rejectAll(): sets approved for every Unit's Annotation,
\* creating the missing ones
setAll(flag) ==
    IF Reviewing
    THEN annotations' = [u \in UnitIds |-> [AnnotationOf(u) EXCEPT !.approved = flag]]
    ELSE UNCHANGED annotations

ApproveAll ==
    /\ Open
    /\ setAll(TRUE)
    /\ UNCHANGED <<pyVars, lineModeVars, netVars>>

RejectAll ==
    /\ Open
    /\ setAll(FALSE)
    /\ UNCHANGED <<pyVars, lineModeVars, netVars>>

\* BlockSubmitItem with a fault: checked: true, as the line-mode payload has it
BlockSubmitItemChecked(unit) ==
    [id |-> unit.id, text |-> unit.text, checked |-> TRUE,
     comment |-> AnnotationOf(unit.id).comment]

\* the item of one Unit: {id, text, checked, comment}
BlockSubmitItem(unit) ==
    [id |-> unit.id, text |-> unit.text, checked |-> AnnotationOf(unit.id).approved,
     comment |-> AnnotationOf(unit.id).comment]

\* {status: "submitted", timestamp, items: [...]}, one item per Unit
BlockSubmitResult(timestamp) ==
    [status |-> "submitted", timestamp |-> timestamp,
     items |-> [k \in 1..Len(blocks) |-> BlockSubmitItem(blocks[k])]]

\* the explicit submit action: Reviewing -> Submitted, with the outbound call
BlockSubmit ==
    /\ Open
    /\ Reviewing
    /\ Fetch("submitReview", BlockSubmitResult(clock))
    /\ clock' = clock + 1
    /\ UNCHANGED <<pyVars, lineModeVars, annotations>>

NextBlock ==
    \/ \E n \in 0..(MaxUnits - 1) : ToggleApproval(BlockPrefix \o ToDecimal(n))
    \/ \E n \in 0..(MaxUnits - 1), text \in CommentTexts :
           SetComment(BlockPrefix \o ToDecimal(n), text)
    \/ ApproveAll
    \/ RejectAll
    \/ BlockSubmit
    \/ \E i \in 1..MaxCalls : FetchResolved(i)
    \/ \E i \in 1..MaxCalls : FetchRejected(i)

SpecBlock == InitBlock /\ [][NextBlock]_vars

(***************************************************************************)
(* Properties of parse_markdown (under SpecParse)                          *)
(***************************************************************************)
\* positions of the newlines of s
NewlinePositions(s) == {i \in 1..Len(s) : s[i] = NL}
\* position of the k-th newline of s; 0 for k = 0, Len(s) + 1 past the last one
LineBound(s, k) ==
    IF k = 0 THEN 0
    ELSE IF k > Cardinality(NewlinePositions(s)) THEN Len(s) + 1
    ELSE CHOOSE i \in NewlinePositions(s) :
             Cardinality({j \in NewlinePositions(s) : j < i}) = k - 1
\* the k-th physical line of s (k = 1, 2, ...): what lies between two newlines
PhysicalLine(s, k) == SubSeq(s, LineBound(s, k - 1) + 1, LineBound(s, k) - 1)

\* C1: parse_markdown returns one Unit per physical line of the text: their
\* number is the number of newline characters plus one, and the k-th Unit
\* has kind "line", level 0, and text and raw equal to the k-th line.
C1_OneUnitPerLine ==
    stage # "input" =>
        /\ Len(blocks) = Cardinality(NewlinePositions(content)) + 1
        /\ \A k \in 1..Len(blocks) :
               /\ blocks[k].type = "line"
               /\ blocks[k].level = 0
               /\ blocks[k].text = PhysicalLine(content, k)
               /\ blocks[k].raw = PhysicalLine(content, k)

\* a text with an empty line inside and a trailing newline has been parsed
C1_Witness ==
    /\ stage # "input"
    /\ Len(content) = 3
    /\ content[2] = NL
    /\ content[3] = NL
    /\ Len(blocks) = 3

\* C2: joining the raw fields of the Units with single newlines gives back
\* the input text, for every text.
C2_RoundTrip ==
    stage # "input" =>
        Join([k \in 1..Len(blocks) |-> blocks[k].raw], <<NL>>) = content

\* a text with a leading blank line, a line with blanks around it and a
\* trailing newline has been parsed
C2_Witness ==
    /\ stage # "input"
    /\ content = <<NL, " ", "a", NL>>
    /\ Len(blocks) = 3

\* C3: the id of the Unit at position k is formed from the zero-based index k,
\* the ids are pairwise distinct, and the line table handed to the page gives
\* the same Unit the lineNum k.
C3_IdIsLineIndex ==
    stage = "page" =>
        /\ Len(lines) = Len(blocks)
        /\ \A k \in 1..Len(blocks) :
               /\ blocks[k].id = LinePrefix \o ToDecimal(k - 1)
               /\ lines[k].id = blocks[k].id
               /\ lines[k].lineNum = k - 1
               /\ lines[k].text = blocks[k].text
        /\ \A j, k \in 1..Len(blocks) : j # k => blocks[j].id # blocks[k].id

\* the page of a text of several lines has been generated
C3_Witness ==
    /\ stage = "page"
    /\ Len(lines) >= 3
    /\ lines[3].lineNum = 2

(***************************************************************************)
(* Properties of the session                                               *)
(***************************************************************************)
\* C4: every line-range annotation of the store lies inside the document,
\* 0 <= startLine <= endLine <= lineCount - 1, whatever the controls did.
C4_RangesValid ==
    \A k \in 1..Len(comments) :
        comments[k].type = "line" =>
            /\ 0 <= comments[k].startLine[1]
            /\ comments[k].startLine[1] <= comments[k].endLine[1]
            /\ comments[k].endLine[1] <= LineCount - 1

\* the store holds a range of several lines, made by dragging, next to
\* another comment, after a deletion took place
C4_Witness ==
    /\ \E k \in 1..Len(comments) :
           /\ comments[k].type = "line"
           /\ comments[k].startLine = Num(0)
           /\ comments[k].endLine = Num(LineCount - 1)
    /\ Len(comments) = 1
    /\ commentIdCounter = 2

\* a range (startLine, endLine) that addRangeComment has to reject
InvalidRange(selStart, selEnd) ==
    \/ selStart[1] < 0
    \/ selEnd[1] >= LineCount
    \/ selStart[1] > selEnd[1]

\* C5: a range comment asked for an invalid range (startLine > endLine,
\* startLine < 0 or endLine >= lineCount) leaves the annotation store as it
\* was.
C5_InvalidRangeRejected ==
    /\ [][(/\ selectionStart # Null
           /\ selectionEnd # Null
           /\ InvalidRange(selectionStart, selectionEnd)
           /\ CallAddCommentForSelection)
              => comments' = comments]_vars
    /\ [][\A n \in LineArgs :
              (InvalidRange(Num(n), Num(n)) /\ CallQuickAddComment(n))
                  => comments' = comments]_vars

\* C6: a submit sends status "submitted", a timestamp and one item per
\* annotation of the store, in creation order, each with the annotation's id,
\* startLine, endLine, text and linePreview, checked = true and comment = text.
C6_SubmitPayload ==
    [][(/\ Len(calls') = Len(calls) + 1
        /\ calls'[Len(calls')].by = "submitReview")
           => LET body == calls'[Len(calls')].body
              IN  /\ DOMAIN body = {"status", "timestamp", "items"}
                  /\ body.status = "submitted"
                  /\ body.timestamp = clock
                  /\ Len(body.items) = Len(comments)
                  /\ \A k \in 1..Len(comments) :
                         /\ DOMAIN body.items[k] =
                                {"id", "startLine", "endLine", "text", "linePreview",
                                 "checked", "comment"}
                         /\ body.items[k].id = comments[k].id
                         /\ body.items[k].startLine = comments[k].startLine
                         /\ body.items[k].endLine = comments[k].endLine
                         /\ body.items[k].text = comments[k].text
                         /\ body.items[k].linePreview = comments[k].linePreview
                         /\ body.items[k].checked = TRUE
                         /\ body.items[k].comment = comments[k].text
                  /\ \A j, k \in 1..Len(body.items) :
                         j < k => \E m, n \in 0..MaxIds :
                                      /\ m < n
                                      /\ body.items[j].id = CommentId(m)
                                      /\ body.items[k].id = CommentId(n)]_vars

\* a submit was made of a store holding a text comment without text and,
\* after it, a range comment
C6_Witness ==
    \E i \in 1..Len(calls) :
        /\ calls[i].by = "submitReview"
        /\ Len(calls[i].body.items) = 2
        /\ calls[i].body.items[1].startLine = Null
        /\ calls[i].body.items[1].text = <<>>
        /\ calls[i].body.items[2].startLine # Null

\* C7: the payload of every cancel call is exactly
\* {status: "cancelled", items: []}, whatever the store holds.
C7_CancelPayload ==
    \A i \in 1..Len(calls) :
        calls[i].by = "cancelReview" =>
            calls[i].body = [status |-> "cancelled", items |-> <<>>]

\* a cancel is the one call made, and the store holds all the comments it can
C7_Witness ==
    /\ Len(calls) = 1
    /\ calls[1].by = "cancelReview"
    /\ Len(comments) = MaxIds
    /\ \E k \in 1..Len(comments) : comments[k].type = "text"

\* C8: one outbound call per session: once a submit or a cancel was triggered,
\* a further submit or cancel issues no call.
C8_OneOutboundCall ==
    [][Len(calls) >= 1 => Len(calls') = Len(calls)]_vars

\* C9: from the moment the outbound call is issued no mutation is accepted:
\* the annotation store and the payload stay as they are.
C9_NoMutationAfterTerminal ==
    [][Len(calls) >= 1 =>
           /\ comments' = comments
           /\ \A i \in 1..Len(calls) : calls'[i].body = calls[i].body]_vars

\* C10: after a failed submit the failure is reported, the store is closed for
\* editing, and a retry sends the payload serialized at the first attempt.
C10_FailedSubmit ==
    /\ [][\A i \in 1..Len(calls) :
              (calls[i].state = "pending" /\ calls'[i].state = "rejected"
                   /\ calls[i].by = "submitReview")
                  => alerts' = alerts + 1]_vars
    /\ [][\A i \in 1..Len(calls) :
              (calls[i].by = "submitReview" /\ calls[i].state = "rejected")
                  => /\ comments' = comments
                     /\ (Len(calls') = Len(calls) + 1
                             /\ calls'[Len(calls')].by = "submitReview")
                            => calls'[Len(calls')].body.items = calls[i].body.items]_vars

(***************************************************************************)
(* Properties of the store operations                                      *)
(***************************************************************************)
\* C11: deleting an annotation id that is not in the store leaves the stored
\* annotations, their order and the comment count as they were, and deleting
\* an id a second time changes nothing the first deletion left.
C11_DeleteIdempotent ==
    [][\A n \in 0..MaxIds :
           CallDeleteComment(CommentId(n)) =>
               /\ (\A k \in 1..Len(comments) : comments[k].id # CommentId(n))
                      => /\ comments' = comments
                         /\ cards' = cards
                         /\ commentCount' = commentCount
               /\ \A k \in 1..Len(comments') : comments'[k].id # CommentId(n)
               /\ WithoutId(comments', CommentId(n)) = comments'
               /\ Cards(WithoutId(comments', CommentId(n))) = cards'
               /\ Len(WithoutId(comments', CommentId(n))) = commentCount']_vars

\* the first comment issued was deleted and a later one is still stored, so
\* a deletion of the first id finds it absent
C11_Witness ==
    /\ commentIdCounter = 2
    /\ Len(comments) = 1
    /\ comments[1].id = CommentId(1)
    /\ commentCount = 1

\* C12: once a clear-all has been carried out (the user confirmed it), the
\* store is empty and the comment count is 0, whatever the store held, and a
\* submit made of the emptied store sends items = [].
C12_ClearAllEmpties ==
    /\ [][ClearAllComments(TRUE) =>
              /\ comments' = <<>>
              /\ cards' = <<>>
              /\ commentCount' = 0]_vars
    /\ [][(/\ comments = <<>>
           /\ Len(calls') = Len(calls) + 1
           /\ calls'[Len(calls')].by = "submitReview")
              => calls'[Len(calls')].body.items = <<>>]_vars

\* every comment the session can make was made, the store was emptied, and
\* the submit made afterwards sent no item
C12_Witness ==
    /\ commentIdCounter = MaxIds
    /\ comments = <<>>
    /\ commentCount = 0
    /\ Len(calls) = 1
    /\ calls[1].by = "submitReview"
    /\ calls[1].body.items = <<>>
    /\ calls[1].body.timestamp = 0

\* C13: the comment count shown to the user equals the number of annotations
\* in the store in every state of the session: it is 0 at the start and
\* follows every addition, deletion and clear-all.
C13_CountMatchesStore ==
    /\ commentCount = Len(comments)
    /\ (commentIdCounter = 0 => commentCount = 0)

\* a text comment and a range comment were added and one of them deleted
C13_Witness ==
    /\ commentIdCounter = 2
    /\ commentCount = 1
    /\ Len(comments) = 1
    /\ comments[1].type = "text"
    /\ comments[1].id = CommentId(1)

\* C14 as stated: setComment is an upsert: once it has been applied to a
\* target, an annotation for that target exists and its comment is the text,
\* whether or not the target had an annotation before.
C14_SetCommentUpserts ==
    lastCall.fn = "updateCommentText" =>
        \E k \in 1..Len(comments) :
            /\ comments[k].id = lastCall.commentId
            /\ comments[k].text = lastCall.text

\* C14, amended: setting the comment of an annotation id can be done any
\* number of times: the text of the annotation with that id becomes the given
\* text and nothing else about it or about the store changes; for an id
\* without annotation nothing is created and the store stays as it is.
C14_SetCommentUpdates ==
    /\ [][\A n \in 0..MaxIds, text \in CommentTexts :
           CallUpdateCommentText(CommentId(n), text) =>
               /\ Len(comments') = Len(comments)
               /\ \A k \in 1..Len(comments) :
                      comments'[k] =
                          IF comments[k].id = CommentId(n)
                          THEN [comments[k] EXCEPT !.text = text]
                          ELSE comments[k]
               /\ commentIdCounter' = commentIdCounter
               /\ commentCount' = commentCount]_vars
    /\ [](lastCall.fn = "updateCommentText" =>
              \A k \in 1..Len(comments) :
                  comments[k].id = lastCall.commentId => comments[k].text = lastCall.text)

\* of two stored annotations one was given a text, the other none
C14_Witness ==
    /\ Len(comments) = 2
    /\ comments[1].text = <<>>
    /\ comments[2].text = <<"a">>
    /\ comments[1].id = CommentId(0)

\* C15: the selection descriptor given to a text-selection comment is stored
\* as it is, and the item a submit emits for that annotation carries it
\* exactly as it was supplied, whatever its length.
C15_DescriptorEchoed ==
    /\ [][(InlineEnter /\ selectedText # <<>>) =>
              comments'[Len(comments')].selectedText = selectedText]_vars
    /\ [][(/\ Len(calls') = Len(calls) + 1
           /\ calls'[Len(calls')].by = "submitReview")
              => \A k \in 1..Len(comments) :
                     comments[k].type = "text" =>
                         LET item == calls'[Len(calls')].body.items[k]
                         IN  \E f \in DOMAIN item \cap {"selectedText", "linePreview"} :
                                 item[f] = comments[k].selectedText]_vars

\* the ids of the annotations of a store
StoredIds(cs) == {cs[k].id : k \in 1..Len(cs)}

\* C16: the ids of the stored annotations are pairwise distinct, and an id
\* issued once is never issued again, also after its annotation was deleted
\* or the store cleared: every id in the store was formed from a counter
\* value below the current one, the counter never goes back, and an
\* annotation that enters the store gets the id of the current counter value,
\* which differs from the ids of all lower values.
C16_FreshIds ==
    /\ [](/\ \A j, k \in 1..Len(comments) : j # k => comments[j].id # comments[k].id
          /\ \A k \in 1..Len(comments) :
                 \E n \in 0..(commentIdCounter - 1) : comments[k].id = CommentId(n))
    /\ [][/\ commentIdCounter' >= commentIdCounter
          /\ \A k \in 1..Len(comments') :
                 comments'[k].id \notin StoredIds(comments) =>
                     /\ comments'[k].id = CommentId(commentIdCounter)
                     /\ commentIdCounter' = commentIdCounter + 1
                     /\ \A n \in 0..(commentIdCounter - 1) :
                            comments'[k].id # CommentId(n)]_vars

\* a range comment was issued after the first annotation had been removed
C16_Witness ==
    /\ commentIdCounter = 2
    /\ StoredIds(comments) = {CommentId(1)}
    /\ comments[1].type = "line"
    /\ comments[1].startLine = Num(1)

\* C17: the store is empty at the start of the session; it grows only by an
\* add-comment action (for the line selection, the + of a line, or the text
\* selection), by exactly one annotation put at its end; it loses annotations
\* only by a delete or a clear-all; and selecting lines, extending or clearing
\* a selection, switching views, selecting text, editing a comment's text and
\* a submit attempt with its outcome leave the annotations and their order as
\* they are.
C17_StoreFrame ==
    /\ [](commentIdCounter = 0 => comments = <<>>)
    /\ [][Len(comments') > Len(comments) =>
              /\ \/ AddCommentForSelection
                 \/ \E n \in LineIndexes : QuickAddComment(n)
                 \/ InlineEnter
              /\ Len(comments') = Len(comments) + 1
              /\ SubSeq(comments', 1, Len(comments)) = comments]_vars
    /\ [][(\E id \in StoredIds(comments) : id \notin StoredIds(comments')) =>
              \/ \E k \in 1..MaxIds : DeleteComment(k)
              \/ ClearAllComments(TRUE)]_vars
    /\ [][(\/ \E sel \in SelectionStrings : TextMouseUp(sel)
           \/ ShowInlineCommentInput
           \/ \E view \in {"rendered", "source"} : SwitchView(view)
           \/ \E n \in LineIndexes : StartLineSelection(n)
           \/ \E n \in LineIndexes : ExtendLineSelection(n)
           \/ MouseUp
           \/ ClearSelection
           \/ \E n \in 0..MaxIds, text \in CommentTexts : EditCommentText(CommentId(n), text)
           \/ FirstSubmitReview
           \/ \E i \in 1..MaxCalls : FetchResolved(i)
           \/ \E i \in 1..MaxCalls : FetchRejected(i))
              => [k \in 1..Len(comments') |-> comments'[k].id]
                     = [k \in 1..Len(comments) |-> comments[k].id]]_vars

\* two annotations are stored, the first with an edited text; a submit
\* attempt sent both and failed, and a line selection is active
C17_Witness ==
    /\ Len(comments) = 2
    /\ comments[1].text = <<"a">>
    /\ comments[2].type = "text"
    /\ Len(calls) = 1
    /\ calls[1].state = "rejected"
    /\ Len(calls[1].body.items) = 2
    /\ selectionStart # Null
    /\ currentView = "source"

\* the Units of the session that are not approved
Rejected == {u \in UnitIds : ~AnnotationOf(u).approved}

\* C18: in block-mode toggleApproval flips the approval flag of its Unit and
\* of no other, and a submit sends one item per Unit, in document order, whose
\* checked field is the Unit's approval flag (approved when the Unit has no
\* Annotation): with exactly one Unit of N toggled to not approved, exactly
\* one item has checked = false and the other N - 1 have checked = true.
C18_CheckedIsApproval ==
    /\ [][\A u \in UnitIds :
              (Reviewing /\ ToggleApproval(u)) =>
                  /\ AnnotationOf(u).approved' = ~AnnotationOf(u).approved
                  /\ \A v \in UnitIds \ {u} :
                         AnnotationOf(v).approved' = AnnotationOf(v).approved]_vars
    /\ [][(/\ Len(calls') = Len(calls) + 1
           /\ calls'[Len(calls')].by = "submitReview")
              => LET items == calls'[Len(calls')].body.items
                 IN  /\ Len(items) = Len(blocks)
                     /\ \A k \in 1..Len(blocks) :
                            /\ DOMAIN items[k] = {"id", "text", "checked", "comment"}
                            /\ items[k].id = blocks[k].id
                            /\ items[k].text = blocks[k].text
                            /\ items[k].checked = AnnotationOf(blocks[k].id).approved
                     /\ Cardinality(Rejected) = 1 =>
                            /\ Cardinality({k \in 1..Len(items) : ~items[k].checked}) = 1
                            /\ Cardinality({k \in 1..Len(items) : items[k].checked})
                                   = Len(blocks) - 1]_vars

\* of three Units one was toggled and nothing else touched, and the submit
\* sent one unchecked item and two checked ones
C18_Witness ==
    /\ Len(blocks) = 3
    /\ Cardinality(DOMAIN annotations) = 1
    /\ Cardinality(Rejected) = 1
    /\ Len(calls) = 1
    /\ Cardinality({k \in 1..3 : ~calls[1].body.items[k].checked}) = 1
    /\ Cardinality({k \in 1..3 : calls[1].body.items[k].checked}) = 2

\* C19: a comment added for a line selection started at line a and extended
\* to line b gets startLine = min(a, b) and endLine = max(a, b), for all
\* lines a and b of the document, b = 0 and a = b included.
C19_RangeIsMinMax ==
    [][(/\ selectionStart # Null
        /\ selectionEnd # Null
        /\ AddCommentForSelection)
           => /\ Len(comments') = Len(comments) + 1
              /\ comments'[Len(comments')].startLine =
                     Num(MathMin(selectionStart[1], selectionEnd[1]))
              /\ comments'[Len(comments')].endLine =
                     Num(MathMax(selectionStart[1], selectionEnd[1]))]_vars

\* the lines a range annotation of the store covers
CoveredLines ==
    {i \in LineIndexes :
        \E k \in 1..Len(comments) :
            /\ comments[k].type = "line"
            /\ comments[k].startLine[1] <= i
            /\ i <= comments[k].endLine[1]}

\* C20: a line of the source view is marked as commented exactly when a
\* line-range annotation of the store covers it; text-selection annotations
\* mark no line.
C20_MarksAreRanges ==
    hasComment = CoveredLines

(***************************************************************************)
(* Properties of the outbound calls                                        *)
(***************************************************************************)
\* C21: the body of a submit call is the store as it was when the submit was
\* triggered, and it stays that body: annotations added, deleted, cleared or
\* edited while the call is in flight, and the outcome of the call, do not
\* change it.
C21_PayloadIsSnapshot ==
    /\ [][(/\ Len(calls') = Len(calls) + 1
           /\ calls'[Len(calls')].by = "submitReview")
              => LET items == calls'[Len(calls')].body.items
                 IN  /\ Len(items) = Len(comments)
                     /\ \A k \in 1..Len(comments) :
                            /\ items[k].id = comments[k].id
                            /\ items[k].text = comments[k].text
                            /\ items[k].startLine = comments[k].startLine
                            /\ items[k].endLine = comments[k].endLine]_vars
    /\ [][\A i \in 1..Len(calls) :
              /\ Len(calls') >= Len(calls)
              /\ calls'[i].body = calls[i].body
              /\ calls'[i].by = calls[i].by]_vars

\* a submit is in flight whose body holds two annotations, while the store
\* has since lost one of them and had the text of the other edited
C21_Witness ==
    /\ Len(calls) = 1
    /\ calls[1].by = "submitReview"
    /\ calls[1].state = "pending"
    /\ Len(calls[1].body.items) = 2
    /\ calls[1].body.items[1].text = <<>>
    /\ Len(comments) = 1
    /\ comments[1].text = <<"a">>

\* an explicit submit or cancel: the two buttons, Cmd/Ctrl+Enter, and Escape
\* with no popup visible and no line selection active
ExplicitSubmitOrCancel ==
    \/ SubmitReview
    \/ CancelReview
    \/ KeyCmdEnter
    \/ (PressEscape /\ ~popupVisible /\ selectionStart = Null)

\* call i is a submit that fails in this step
SubmitFails(i) ==
    /\ calls[i].by = "submitReview"
    /\ calls[i].state = "pending"
    /\ Len(calls') >= i
    /\ calls'[i].state = "rejected"

\* C22: a failed submit is reported to the user and not sent again by the
\* page: an outbound call is issued in exactly the steps that are an explicit
\* submit or cancel, one call per step, so the number of calls issued equals
\* the number of those steps; and the step in which a submit fails raises one
\* alert, issues no call, leaves the page open and leaves the annotation
\* store (annotations, order, ids, texts) and the id counter as they were.
C22_FailedSubmitNotRetried ==
    /\ [][(Len(calls') # Len(calls)) <=> ExplicitSubmitOrCancel]_vars
    /\ [][(Len(calls') # Len(calls)) => Len(calls') = Len(calls) + 1]_vars
    /\ [][\A i \in 1..Len(calls) :
              SubmitFails(i) => /\ alerts' = alerts + 1
                                /\ Len(calls') = Len(calls)
                                /\ closed' = closed
                                /\ comments' = comments
                                /\ commentIdCounter' = commentIdCounter]_vars

\* a submit failed with a comment in the store, and the user submitted again
C22_Witness ==
    /\ Len(calls) = 2
    /\ calls[1].by = "submitReview" /\ calls[1].state = "rejected"
    /\ calls[2].by = "submitReview" /\ calls[2].state = "pending"
    /\ alerts = 1
    /\ comments # <<>>
    /\ ~closed

\* some cancel call was issued
CancelIssued == \E i \in 1..Len(calls) : calls[i].by = "cancelReview"

\* C23: cancel always ends the session: once a cancel call was issued the
\* page is eventually closed, whether the call succeeds or fails, and the
\* failure of a cancel raises no alert; a submit closes the page only when
\* its call succeeds: the page closes only in a step in which a call resolves
\* or a cancel call rejects, and the step in which a submit rejects leaves the
\* page open.
C23_CancelAlwaysCloses ==
    /\ CancelIssued ~> closed
    /\ [][\A i \in 1..Len(calls) :
              (calls[i].by = "cancelReview" /\ calls[i].state = "pending"
                   /\ calls'[i].state = "rejected")
                  => (closed' /\ alerts' = alerts)]_vars
    /\ [][(closed' /\ ~closed)
              => \E i \in 1..Len(calls) :
                     /\ calls[i].state = "pending"
                     /\ \/ calls'[i].state = "resolved"
                        \/ calls'[i].state = "rejected" /\ calls[i].by = "cancelReview"]_vars
    /\ [][\A i \in 1..Len(calls) : SubmitFails(i) => ~closed']_vars

\* a cancel call failed and the page is closed, after a submit had failed
\* and left it open
C23_Witness ==
    /\ Len(calls) = 2
    /\ calls[1].by = "submitReview" /\ calls[1].state = "rejected"
    /\ calls[2].by = "cancelReview" /\ calls[2].state = "rejected"
    /\ closed
    /\ alerts = 1

\* a step in which Escape is pressed: in the inline comment input, or
\* anywhere else (seen at the first such press of a behaviour)
EscapePressed ==
    \/ InlineEscape
    \/ (lastCall # EscapeKey /\ lastCall' = EscapeKey)

\* C24: pressing Escape cancels the review only when the inline comment
\* popup is not visible and no line selection is active; with the popup
\* visible the press hides the popup and drops the pending text selection,
\* with a line selection active (and no popup) it clears the line selection,
\* and in these two cases no call is issued and the annotation store is
\* unchanged.
C24_EscapeByContext ==
    [][EscapePressed =>
          /\ (Len(calls') # Len(calls)) => (~popupVisible /\ selectionStart = Null)
          /\ popupVisible => /\ ~popupVisible'
                             /\ selectedText' = <<>>
                             /\ selectionRange' = Null
                             /\ calls' = calls
                             /\ comments' = comments
          /\ (~popupVisible /\ selectionStart # Null)
                 => /\ selectionStart' = Null
                    /\ selectionEnd' = Null
                    /\ calls' = calls
                    /\ comments' = comments]_vars

\* a step that confirms a text comment: Enter in the popup's input, or a call
\* of confirmInlineComment
Confirms == InlineEnter \/ CallConfirmInlineComment

\* C25: confirming a text comment when no text is selected leaves the
\* annotation store and the id counter as they are; a confirm with a pending
\* selection appends exactly one text annotation, holding the selected text,
\* and leaves no pending selection (selectedText empty, selectionRange none),
\* so a second confirm with no new selection in between is of the first kind
\* and adds nothing.
C25_ConfirmOncePerSelection ==
    /\ [][(Confirms /\ selectedText = <<>>)
              => (comments' = comments /\ commentIdCounter' = commentIdCounter)]_vars
    /\ [][(Confirms /\ selectedText # <<>>)
              => /\ Len(comments') = Len(comments) + 1
                 /\ SubSeq(comments', 1, Len(comments)) = comments
                 /\ comments'[Len(comments')].type = "text"
                 /\ comments'[Len(comments')].selectedText = selectedText
                 /\ selectedText' = <<>>
                 /\ selectionRange' = Null]_vars

\* confirmInlineComment was called, one text annotation for the selection
\* "a" is in the store, one id was issued and no selection is pending
C25_Witness ==
    /\ lastCall = ConfirmCall
    /\ Len(comments) = 1
    /\ comments[1].type = "text"
    /\ comments[1].selectedText = <<"a">>
    /\ commentIdCounter = 1
    /\ selectedText = <<>>
    /\ ~popupVisible

\* cs without its j-th element
Without(cs, j) == SubSeq(cs, 1, j - 1) \o SubSeq(cs, j + 1, Len(cs))

SubmitTriggered(i) ==
    /\ i <= Len(calls)
    /\ calls[i].by = "submitReview"
    /\ calls[i].state = "pending"

\* submit call i ended: the page is closed, or the failure of the call was
\* reported
SubmitEnded(i) ==
    \/ closed
    \/ (i <= Len(calls) /\ calls[i].state = "rejected" /\ alerts > 0)

\* C27: every submit attempt ends, given that its call completes or fails:
\* a submit that was triggered leads to the page closed or to the failure of
\* its call reported by an alert; each outcome of the call is one of the two:
\* the step in which the call resolves closes the page, the step in which it
\* rejects raises an alert.
C27_SubmitEnds ==
    /\ \A i \in 1..MaxCalls : SubmitTriggered(i) ~> SubmitEnded(i)
    /\ [][\A i \in 1..Len(calls) :
              (calls[i].by = "submitReview" /\ calls[i].state = "pending")
                  => /\ calls'[i].state = "resolved" => closed'
                     /\ calls'[i].state = "rejected" => alerts' = alerts + 1]_vars

\* one submit failed and was reported, a second one succeeded and closed the
\* page
C27_Witness ==
    /\ Len(calls) = 2
    /\ calls[1].by = "submitReview" /\ calls[1].state = "rejected"
    /\ calls[2].by = "submitReview" /\ calls[2].state = "resolved"
    /\ alerts = 1
    /\ closed
    /\ comments # <<>>

\* C28: adding a comment for the line selection when no selection is active
\* (selectionStart is none) leaves the store and the id counter as they are;
\* with a selection active it appends exactly one line annotation whose
\* comment text is empty, issues one id, and leaves selectionStart and
\* selectionEnd both none.
C28_AddForSelection ==
    /\ [][(CallAddCommentForSelection /\ selectionStart = Null)
              => (comments' = comments /\ commentIdCounter' = commentIdCounter)]_vars
    /\ [][(CallAddCommentForSelection /\ selectionStart # Null)
              => /\ Len(comments') = Len(comments) + 1
                 /\ SubSeq(comments', 1, Len(comments)) = comments
                 /\ comments'[Len(comments')].type = "line"
                 /\ comments'[Len(comments')].text = <<>>
                 /\ commentIdCounter' = commentIdCounter + 1
                 /\ selectionStart' = Null
                 /\ selectionEnd' = Null]_vars

\* a comment was added for a selection of two lines while the drag was still
\* going on, and no selection is left
C28_Witness ==
    /\ Len(comments) = 1
    /\ comments[1].type = "line"
    /\ comments[1].startLine = Num(0)
    /\ comments[1].endLine = Num(1)
    /\ comments[1].text = <<>>
    /\ isSelecting
    /\ selectionStart = Null
    /\ selectionEnd = Null

====
